---- MODULE Spec2Model ----
(***************************************************************************)
(* The five example programs of zenoh/examples/zenoh (sensor, t_get,       *)
(* t_eval, t_sub, motion): each main as a state machine over its await     *)
(* points, with the zenoh session / streams and the tracing SDK as the     *)
(* environment whose results are drawn nondeterministically.               *)
(*                                                                         *)
(* Strings the programs compute with (joined locators, the traceparent     *)
(* header, names, replies) are sequences of one-character strings, so that *)
(* join, format!, starts_with and the header's parse are computed.  Keys   *)
(* of maps and names of spans are atoms.                                   *)
(***************************************************************************)
EXTENDS Integers, Sequences, FiniteSets, TLC

\* ------------------------------------------------------------------ bounds
\* Span and trace ids the tracer may draw are 0..MaxId (0 is the invalid id).
MaxId == 2
\* Notifications a subscriber takes from its change stream in one run.
MaxNotif == 2
\* Get requests t_eval takes from its eval stream in one run.
MaxReq == 2
\* Data items t_get takes from its get stream in one run.
MaxData == 2

\* ----------------------------------------------------------------- strings
S_comma == <<",">>
S_dash == "-"
S_slash == "/"
S_false == <<"f","a","l","s","e">>
S_peer == <<"p","e","e","r">>
S_client == <<"c","l","i","e","n","t">>
S_Rust == <<"R","u","s","t","!">>
S_Bob == <<"B","o","b">>
S_EvalFrom == <<"E","v","a","l"," ","f","r","o","m"," ">>
S_other_data_type == <<"o","t","h","e","r"," ","d","a","t","a"," ","t","y","p","e">>
S_hello == <<"h","e","l","l","o">>
S_Alice == <<"A","l","i","c","e">>
\* Locators and paths of the runs explored.
S_loc1 == <<"t","c","p","/","a">>
S_loc2 == <<"t","c","p","/","b">>
S_file1 == <<"/","f","1">>
S_file2 == <<"/","f","2">>
S_nofile == <<"/","n","o","n","e">>
S_custom == <<"/","x">>
S_name_path == <<"/","n">>
S_put_default == <<"/","d","e","m","o","/","e","x","a","m","p","l","e","/",
                   "z","e","n","o","h","-","r","s","-","p","u","t">>
S_eval_path == <<"/","d","e","m","o","/","e","x","a","m","p","l","e","/","e","v","a","l">>
S_sel_default == <<"/","d","e","m","o","/","e","x","a","m","p","l","e","/","*","*">>
S_value_default == <<"P","u","t"," ","f","r","o","m"," ","R","u","s","t","!">>

\* [&str].join(sep)
RECURSIVE join(_, _)
join(parts, sep) ==
    IF parts = <<>> THEN <<>>
    ELSE IF Len(parts) = 1 THEN parts[1]
    ELSE parts[1] \o sep \o join(Tail(parts), sep)

\* str::starts_with(char)
starts_with(s, c) == Len(s) > 0 /\ s[1] = c

\* str::split_terminator(char): the parts between the separators, in order;
\* a separator at the very end terminates the last part instead of opening an
\* empty one, and the empty string has no parts.
RECURSIVE split_terminator(_, _)
split_terminator(s, c) ==
    IF Len(s) = 0 THEN <<>>
    ELSE IF \A i \in 1..Len(s) : s[i] # c THEN <<s>>
    ELSE LET k == CHOOSE i \in 1..Len(s) : s[i] = c /\ \A j \in 1..(i-1) : s[j] # c
         IN  <<SubSeq(s, 1, k-1)>> \o split_terminator(SubSeq(s, k+1, Len(s)), c)

\* The characters with the Unicode White_Space property, which is what
\* str::trim() removes: U+0009..U+000D, U+0020, U+0085, U+00A0, U+1680,
\* U+2000..U+200A, U+2028, U+2029, U+202F, U+205F and U+3000.  A character
\* is a one-character string; the characters from U+2000 on cannot be written
\* in a TLA+ string and stand here as the name of their code point.
WhiteSpace ==
    {"\t", "\n", "", "\f", "\r", " ", "", " ", " ",
     "U+2000", "U+2001", "U+2002", "U+2003", "U+2004", "U+2005",
     "U+2006", "U+2007", "U+2008", "U+2009", "U+200A", "U+2028",
     "U+2029", "U+202F", "U+205F", "U+3000"}

\* str::trim(): without the white space at both ends.
RECURSIVE trim_start(_)
trim_start(s) ==
    IF Len(s) > 0 /\ s[1] \in WhiteSpace THEN trim_start(Tail(s)) ELSE s
RECURSIVE trim_end(_)
trim_end(s) ==
    IF Len(s) > 0 /\ s[Len(s)] \in WhiteSpace
    THEN trim_end(SubSeq(s, 1, Len(s) - 1)) ELSE s
trim(s) == trim_end(trim_start(s))

\* char::is_ascii_uppercase()
AsciiUpper == {"A","B","C","D","E","F","G","H","I","J","K","L","M",
               "N","O","P","Q","R","S","T","U","V","W","X","Y","Z"}
is_ascii_uppercase(c) == c \in AsciiUpper

\* -------------------------------------------------------------------- maps
\* HashMap<String, String> / Properties: a function on the keys present.
EmptyMap == [k \in {} |-> <<>>]
insert(m, k, v) == [x \in (DOMAIN m) \cup {k} |-> IF x = k THEN v ELSE m[x]]
contains_key(m, k) == k \in DOMAIN m

\* ------------------------------------------------- trace-context propagator
HexChars == <<"0","1","2","3","4","5","6","7","8","9","a","b","c","d","e","f">>
HexUpper == <<"A","B","C","D","E","F">>
\* char::to_digit(16): digits and letters a-f in either case.
IsHex(c) == (\E i \in 1..16 : HexChars[i] = c) \/ (\E i \in 1..6 : HexUpper[i] = c)
HexVal(c) == IF \E i \in 1..16 : HexChars[i] = c
             THEN (CHOOSE i \in 1..16 : HexChars[i] = c) - 1
             ELSE (CHOOSE i \in 1..6 : HexUpper[i] = c) + 9

\* format!("{:x}", n)
RECURSIVE hex(_)
hex(n) == IF n < 16 THEN <<HexChars[n + 1]>>
          ELSE hex(n \div 16) \o <<HexChars[(n % 16) + 1]>>

\* format!("{:0wx}", n): left-padded with zeros to width w
zero_pad(s, w) == [i \in 1..(IF Len(s) > w THEN Len(s) ELSE w) |->
                     IF Len(s) >= w THEN s[i]
                     ELSE IF i <= w - Len(s) THEN "0" ELSE s[i - (w - Len(s))]]

\* The number a string of hex digits writes.
RECURSIVE digits_value(_)
digits_value(d) ==
    IF Len(d) = 0 THEN 0
    ELSE digits_value(SubSeq(d, 1, Len(d) - 1)) * 16 + HexVal(d[Len(d)])

RECURSIVE strip_zeros(_)
strip_zeros(d) == IF Len(d) > 0 /\ d[1] = "0" THEN strip_zeros(Tail(d)) ELSE d

\* u8 / u64 / u128 ::from_str_radix(s, 16) for the type of the given width;
\* -1 stands for Err.  One leading "+" is accepted; an empty string, a sign
\* alone and any character that is not a hex digit are errors, and so is a
\* number that does not fit the width (more significant digits than bits / 4).
\* Numbers are computed within TLC's integers (up to 7 significant digits).
from_str_radix(s, bits) ==
    LET d == IF Len(s) > 0 /\ s[1] = "+" THEN Tail(s) ELSE s
        z == strip_zeros(d)
    IN  IF Len(d) = 0 THEN -1
        ELSE IF \E i \in 1..Len(d) : ~IsHex(d[i]) THEN -1
        ELSE IF Len(z) * 4 > bits THEN -1
        ELSE digits_value(z)

\* A span context: trace id and span id; id 0 is invalid.  NoCtx is the
\* context without a (remote) span.
NoCtx == [tid |-> 0, sid |-> 0]
is_valid(sc) == sc.tid # 0 /\ sc.sid # 0

\* The traceparent header of a span context:
\* format!("{:02x}-{:032x}-{:016x}-{:02x}", version 0, trace id, span id, flags).
traceparent_of(sc) ==
    <<"0","0">> \o <<S_dash>> \o zero_pad(hex(sc.tid), 32) \o <<S_dash>>
    \o zero_pad(hex(sc.sid), 16) \o <<S_dash>> \o <<"0","1">>

\* propagator.inject_context(&cx, &mut injector): a valid span context adds
\* "traceparent" and "tracestate"; an invalid one adds nothing.
inject_context(sc, injector) ==
    IF is_valid(sc)
    THEN insert(insert(injector, "traceparent", traceparent_of(sc)), "tracestate", <<>>)
    ELSE injector

\* propagator.extract(&req_header): the remote span context parsed from the
\* "traceparent" entry, or NoCtx when it is missing or does not parse.  The
\* header is trimmed and cut at "-"; it needs at least four parts, exactly four
\* for version 0; the version is a u8 below 255, the trace id a u128 and the
\* span id a u64 without upper-case letters, the flags a u8 (at most 2 for
\* version 0), and the resulting span context must be valid.
extract(req_header) ==
    LET hv    == trim(IF contains_key(req_header, "traceparent")
                      THEN req_header["traceparent"] ELSE <<>>)
        parts == split_terminator(hv, S_dash)
    IN  IF Len(parts) < 4 THEN NoCtx
        ELSE LET version == from_str_radix(parts[1], 8)
             IN  IF version < 0 \/ version > 254 \/ (version = 0 /\ Len(parts) # 4)
                 THEN NoCtx
                 ELSE IF \E i \in 1..Len(parts[2]) : is_ascii_uppercase(parts[2][i])
                 THEN NoCtx
                 ELSE IF \E i \in 1..Len(parts[3]) : is_ascii_uppercase(parts[3][i])
                 THEN NoCtx
                 ELSE LET tid  == from_str_radix(parts[2], 128)
                          sid  == from_str_radix(parts[3], 64)
                          opts == from_str_radix(parts[4], 8)
                          sc   == [tid |-> tid, sid |-> sid]
                      IN  IF tid < 0 \/ sid < 0 \/ opts < 0 THEN NoCtx
                          ELSE IF version = 0 /\ opts > 2 THEN NoCtx
                          ELSE IF ~is_valid(sc) THEN NoCtx
                          ELSE sc

\* --------------------------------------------------------------- arguments
Programs == {"sensor", "t_get", "t_eval", "t_sub", "motion"}
Publishers == {"sensor", "t_get"}
Subscribers == {"t_sub", "motion"}
Receivers == {"t_sub", "motion", "t_eval"}

\* The configuration files of the runs explored: path -> Properties.  A path
\* outside the domain cannot be read.
FileSystem ==
    (S_file1 :> insert(EmptyMap, "mode", S_client)) @@
    (S_file2 :> insert(insert(insert(EmptyMap, "peer", S_loc2), "multicast_scouting", S_false),
                       "local_routing", S_false))

\* Properties::try_from(Path): Err (ok = FALSE) when the file cannot be read.
Properties_try_from(conf_file) ==
    IF conf_file \in DOMAIN FileSystem
    THEN [ok |-> TRUE, props |-> FileSystem[conf_file]]
    ELSE [ok |-> FALSE, props |-> EmptyMap]

\* A command line, as clap's matches: for each option the sequence of the
\* values given (empty: not given); a flag is present or not.
ArgsAll ==
    [mode     : {<<>>, <<S_peer>>, <<S_client>>},
     peer     : {<<>>, <<S_loc1>>, <<S_loc1, S_loc2>>},
     listener : {<<>>, <<S_loc2>>, <<S_loc2, S_loc1>>},
     config   : {<<>>, <<S_file1>>, <<S_file2>>, <<S_nofile>>},
     noms     : BOOLEAN,
     path     : {<<>>, <<S_custom>>},
     value    : {<<>>, <<S_hello>>}]

\* The command lines of the runs whose whole main is explored.
ArgsMain ==
    {a \in ArgsAll :
        \/ a = [mode |-> <<>>, peer |-> <<>>, listener |-> <<>>, config |-> <<>>,
                noms |-> FALSE, path |-> <<>>, value |-> <<>>]
        \/ a = [mode |-> <<S_client>>, peer |-> <<S_loc1, S_loc2>>, listener |-> <<>>,
                config |-> <<S_file2>>, noms |-> TRUE, path |-> <<S_custom>>,
                value |-> <<S_hello>>]
        \/ a = [mode |-> <<>>, peer |-> <<>>, listener |-> <<>>, config |-> <<S_nofile>>,
                noms |-> FALSE, path |-> <<>>, value |-> <<>>]}

\* args.values_of(key)
values_of(a, key) ==
    IF key = "mode" THEN a.mode ELSE IF key = "peer" THEN a.peer ELSE a.listener

\* for key in ["mode", "peer", "listener"] { if let Some(value) = args.values_of(key)
\*     { config.insert(key, value.collect().join(",")) } }
RECURSIVE insert_keys(_, _, _)
insert_keys(cfg, a, keys) ==
    IF keys = <<>> THEN cfg
    ELSE LET key == Head(keys)
             c1  == IF values_of(a, key) # <<>>
                    THEN insert(cfg, key, join(values_of(a, key), S_comma))
                    ELSE cfg
         IN  insert_keys(c1, a, Tail(keys))

\* Mutant of parse_args_config: the listener key is left out of the loop.
parse_args_config_no_listener(a) ==
    LET base == IF a.config # <<>> THEN Properties_try_from(a.config[1])
                ELSE [ok |-> TRUE, props |-> EmptyMap]
    IN  IF ~base.ok THEN base
        ELSE LET c1 == insert_keys(base.props, a, <<"mode", "peer">>)
             IN  [ok |-> TRUE,
                  props |-> IF a.noms THEN insert(c1, "multicast_scouting", S_false) ELSE c1]

\* Mutant of parse_args_config: the config file is applied last, so its
\* values override the command line's.
parse_args_config_file_wins(a) ==
    LET base == IF a.config # <<>> THEN Properties_try_from(a.config[1])
                ELSE [ok |-> TRUE, props |-> EmptyMap]
    IN  IF ~base.ok THEN base
        ELSE LET c1 == insert_keys(EmptyMap, a, <<"mode", "peer", "listener">>)
                 c2 == IF a.noms THEN insert(c1, "multicast_scouting", S_false) ELSE c1
             IN  [ok |-> TRUE,
                  props |-> [k \in (DOMAIN c2) \cup (DOMAIN base.props) |->
                               IF k \in DOMAIN base.props THEN base.props[k] ELSE c2[k]]]

\* parse_args: the Properties it returns (ok = FALSE: the unwrap of the
\* config file's read panics).
parse_args_config(a) ==
    LET base == IF a.config # <<>> THEN Properties_try_from(a.config[1])
                ELSE [ok |-> TRUE, props |-> EmptyMap]
    IN  IF ~base.ok THEN base
        ELSE LET c1 == insert_keys(base.props, a, <<"mode", "peer", "listener">>)
             IN  [ok |-> TRUE,
                  props |-> IF a.noms THEN insert(c1, "multicast_scouting", S_false) ELSE c1]

\* parse_args: the path / selector it returns (clap's default_value when the
\* option is not given).
parse_args_path(p, a) ==
    IF a.path # <<>> THEN a.path[1]
    ELSE IF p = "sensor" THEN S_put_default
    ELSE IF p = "t_eval" THEN S_eval_path
    ELSE S_sel_default

\* parse_args of sensor: the value it returns.
parse_args_value(a) == IF a.value # <<>> THEN a.value[1] ELSE S_value_default

\* ------------------------------------------------------------------- state
VARIABLES
    prog,           \* which of the five programs this run is
    args,           \* its command line
    pc,             \* where main is
    config,         \* the Properties parse_args returned
    path,           \* the path / selector parse_args returned
    session,        \* the zenoh session: "none", "open", "closed"
    change_stream,  \* the subscription stream: "none", "open", "closed"
    get_stream,     \* t_eval's eval stream: "none", "open", "closed"
    data_stream,    \* t_get's get stream: "none", "open"
    input,          \* the one-byte stdin buffer of motion and t_sub
    cx,             \* span context of the publisher's span
    injector,       \* header map the publisher injected into
    req_header,     \* header map the receiver extracts from
    get_request,    \* t_eval: the request being served (NoReq: none)
    name,           \* t_eval: the name being computed
    spans,          \* spans started, in order
    ops,            \* calls issued to the tracer init and the pub/sub library, in order
    notifs,         \* notifications taken from the change stream, in order
    reqlog,         \* t_eval: requests taken, with what the library answered
    received,       \* t_get: data items taken from the get stream, in order
    events,         \* t_get: events added to the Root span, in order
    stream_ended,   \* the change stream's next() yielded None
    stdout,         \* values printed on "[Subscription listener] received" lines
    flushed         \* the tracer provider was flushed and shut down

vars == <<prog, args, pc, config, path, session, change_stream, get_stream, data_stream,
          input, cx, injector, req_header, get_request, name, spans, ops, notifs,
          reqlog, received, events, stream_ended, stdout, flushed>>

\* zenoh::Value, and Option<Value>'s None
StringUtf8(s) == [k |-> "StringUtf8", s |-> s]
Integer_value == [k |-> "Integer", s |-> <<>>]
NoValue == [k |-> "None", s |-> <<>>]

\* Span contexts the tracer can give a started span.
ValidCtx == [tid : 1..MaxId, sid : 1..MaxId]

\* Values a notification can carry: a traceparent a publisher injected, another
\* string, a value of another type, or no value.
ChangeValues ==
    {StringUtf8(traceparent_of(sc)) : sc \in ValidCtx}
    \cup {StringUtf8(S_hello), Integer_value, NoValue}

\* A call issued to the library and whether it succeeded.
Op(op, ok, p, v) == [op |-> op, ok |-> ok, path |-> p, value |-> v]

NoReq == [present |-> FALSE, name |-> <<>>, has_name |-> FALSE]

\* A started span: its name, the header map extract was given and the parent
\* context it returned, and (history) the notification value the header was
\* built from, that notification's index (0: none) and how many notifications
\* had been taken when the span started.
SpanRec(n, header, parent, v, from, at) ==
    [name |-> n, header |-> header, parent |-> parent, value |-> v,
     header_from |-> from, at_notif |-> at]

\* Only sensor has the --value option.
ProgramArgs(p, a) == IF p = "sensor" THEN a ELSE [a EXCEPT !.value = <<>>]

Init ==
    /\ prog \in Programs
    /\ \E a \in ArgsMain : args = ProgramArgs(prog, a)
    /\ pc = "init_tracer"
    /\ config = EmptyMap
    /\ path = <<>>
    /\ session = "none"
    /\ change_stream = "none"
    /\ get_stream = "none"
    /\ data_stream = "none"
    /\ input = "0"
    /\ cx = NoCtx
    /\ injector = EmptyMap
    /\ req_header = EmptyMap
    /\ get_request = NoReq
    /\ name = <<>>
    /\ spans = <<>>
    /\ ops = <<>>
    /\ notifs = <<>>
    /\ reqlog = <<>>
    /\ received = <<>>
    /\ events = <<>>
    /\ stream_ended = FALSE
    /\ stdout = <<>>
    /\ flushed = FALSE

\* ---------------------------------------------------- steps common to all
\* let _ = init_global_tracer().unwrap();
InitTracer ==
    /\ pc = "init_tracer"
    /\ \E ok \in BOOLEAN :
         /\ ops' = Append(ops, Op("init_tracer", ok, <<>>, NoValue))
         /\ pc' = IF ~ok THEN "aborted"
                  ELSE IF prog \in Publishers THEN "start_span" ELSE "parse_args"
    /\ UNCHANGED <<stdout, prog, args, config, path, session, change_stream, get_stream,
                   data_stream, input, cx, injector, req_header, get_request, name,
                   spans, notifs, reqlog, received, events, stream_ended, flushed>>

\* sensor, t_get: start the span, make it the current context, inject it.
StartSpan ==
    /\ pc = "start_span"
    /\ \E sc \in ValidCtx \cup {NoCtx} :
         /\ cx' = sc
         /\ injector' = inject_context(sc, EmptyMap)
         /\ spans' = Append(spans, SpanRec(IF prog = "sensor" THEN "Put data" ELSE "Root",
                                           EmptyMap, NoCtx, NoValue, 0, 0))
    /\ pc' = "parse_args"
    /\ UNCHANGED <<stdout, prog, args, config, path, session, change_stream, get_stream,
                   data_stream, input, req_header, get_request, name, ops, notifs,
                   reqlog, received, events, stream_ended, flushed>>

\* let (config, path) = parse_args();
ParseArgs ==
    /\ pc = "parse_args"
    /\ LET r == parse_args_config(args)
       IN  IF r.ok
           THEN /\ config' = r.props
                /\ path' = parse_args_path(prog, args)
                /\ pc' = "open"
           ELSE /\ pc' = "aborted"
                /\ UNCHANGED <<config, path>>
    /\ UNCHANGED <<stdout, prog, args, session, change_stream, get_stream, data_stream, input,
                   cx, injector, req_header, get_request, name, spans, ops, notifs,
                   reqlog, received, events, stream_ended, flushed>>

\* let zenoh = Zenoh::new(config.into()).await.unwrap();
OpenSession ==
    /\ pc = "open"
    /\ \E ok \in BOOLEAN :
         /\ ops' = Append(ops, Op("open", ok, <<>>, NoValue))
         /\ session' = IF ok THEN "open" ELSE session
         /\ pc' = IF ok THEN "workspace" ELSE "aborted"
    /\ UNCHANGED <<stdout, prog, args, config, path, change_stream, get_stream, data_stream,
                   input, cx, injector, req_header, get_request, name, spans, notifs,
                   reqlog, received, events, stream_ended, flushed>>

\* let workspace = zenoh.workspace(None).await.unwrap();
NewWorkspace ==
    /\ pc = "workspace"
    /\ \E ok \in BOOLEAN :
         /\ ops' = Append(ops, Op("workspace", ok, <<>>, NoValue))
         /\ pc' = IF ~ok THEN "aborted"
                  ELSE IF prog \in Publishers THEN "put"
                  ELSE IF prog = "t_eval" THEN "register_eval"
                  ELSE "subscribe"
    /\ UNCHANGED <<stdout, prog, args, config, path, session, change_stream, get_stream,
                   data_stream, input, cx, injector, req_header, get_request, name,
                   spans, notifs, reqlog, received, events, stream_ended, flushed>>

\* zenoh.close().await.unwrap();  (motion's main returns right after it)
CloseSession ==
    /\ pc = "close"
    /\ \E ok \in BOOLEAN :
         /\ ops' = Append(ops, Op("close", ok, <<>>, NoValue))
         /\ session' = IF ok THEN "closed" ELSE session
         /\ pc' = IF ~ok THEN "aborted"
                  ELSE IF prog = "motion" THEN "done" ELSE "flush"
    /\ UNCHANGED <<stdout, prog, args, config, path, change_stream, get_stream, data_stream,
                   input, cx, injector, req_header, get_request, name, spans, notifs,
                   reqlog, received, events, stream_ended, flushed>>

\* force_flush_tracer_provider(); shutdown_tracer_provider();
FlushShutdown ==
    /\ pc = "flush"
    /\ flushed' = TRUE
    /\ pc' = "done"
    /\ UNCHANGED <<stdout, prog, args, config, path, session, change_stream, get_stream,
                   data_stream, input, cx, injector, req_header, get_request, name,
                   spans, ops, notifs, reqlog, received, events, stream_ended>>

\* Mutant of Sensor_Put: the value put is the one --value gave.
Sensor_Put_value ==
    /\ pc = "put"
    /\ prog = "sensor"
    /\ IF ~contains_key(injector, "traceparent")
       THEN /\ pc' = "aborted"
            /\ UNCHANGED ops
       ELSE \E ok \in BOOLEAN :
              /\ ops' = Append(ops, Op("put", ok, path, StringUtf8(parse_args_value(args))))
              /\ pc' = IF ok THEN "close" ELSE "aborted"
    /\ UNCHANGED <<stdout, prog, args, config, path, session, change_stream, get_stream,
                   data_stream, input, cx, injector, req_header, get_request, name,
                   spans, notifs, reqlog, received, events, stream_ended, flushed>>

\* ------------------------------------------------------------------ sensor
\* println!(.., injector["traceparent"]); workspace.put(&path, injector["traceparent"]
\*     .clone().into()).await.unwrap();    indexing a missing key panics
Sensor_Put ==
    /\ pc = "put"
    /\ prog = "sensor"
    /\ IF ~contains_key(injector, "traceparent")
       THEN /\ pc' = "aborted"
            /\ UNCHANGED ops
       ELSE \E ok \in BOOLEAN :
              /\ ops' = Append(ops, Op("put", ok, path, StringUtf8(injector["traceparent"])))
              /\ pc' = IF ok THEN "close" ELSE "aborted"
    /\ UNCHANGED <<stdout, prog, args, config, path, session, change_stream, get_stream,
                   data_stream, input, cx, injector, req_header, get_request, name,
                   spans, notifs, reqlog, received, events, stream_ended, flushed>>

\* ------------------------------------------------------------------- t_get
\* if injector.contains_key("traceparent") { workspace.put("/demo/example/eval", ..) }
TGet_Put ==
    /\ pc = "put"
    /\ prog = "t_get"
    /\ IF contains_key(injector, "traceparent")
       THEN \E ok \in BOOLEAN :
              /\ ops' = Append(ops, Op("put", ok, S_eval_path,
                                       StringUtf8(injector["traceparent"])))
              /\ pc' = IF ok THEN "get" ELSE "aborted"
       ELSE /\ pc' = "get"
            /\ UNCHANGED ops
    /\ UNCHANGED <<stdout, prog, args, config, path, session, change_stream, get_stream,
                   data_stream, input, cx, injector, req_header, get_request, name,
                   spans, notifs, reqlog, received, events, stream_ended, flushed>>

\* let mut data_stream = workspace.get(&selector).await.unwrap();
TGet_Get ==
    /\ pc = "get"
    /\ \E ok \in BOOLEAN :
         /\ ops' = Append(ops, Op("get", ok, path, NoValue))
         /\ data_stream' = IF ok THEN "open" ELSE data_stream
         /\ pc' = IF ok THEN "data_loop" ELSE "aborted"
    /\ UNCHANGED <<stdout, prog, args, config, path, session, change_stream, get_stream,
                   input, cx, injector, req_header, get_request, name, spans, notifs,
                   reqlog, received, events, stream_ended, flushed>>

\* Values a get can return.
DataValues == {StringUtf8(S_Alice), Integer_value}

\* Mutant of TGet_Next: only string data gets an event.
TGet_Next_strings_only ==
    /\ pc = "data_loop"
    /\ \/ /\ Len(received) < MaxData
          /\ \E d \in DataValues :
               /\ received' = Append(received, d)
               /\ events' = IF d.k = "StringUtf8"
                            THEN Append(events, [name |-> "Get the return data", data |-> d])
                            ELSE events
          /\ UNCHANGED pc
       \/ /\ pc' = "close"
          /\ UNCHANGED <<received, events>>
    /\ UNCHANGED <<stdout, prog, args, config, path, session, change_stream, get_stream,
                   data_stream, input, cx, injector, req_header, get_request, name,
                   spans, ops, notifs, reqlog, stream_ended, flushed>>

\* while let Some(data) = data_stream.next().await { cx.span().add_event(..) }
TGet_Next ==
    /\ pc = "data_loop"
    /\ \/ /\ Len(received) < MaxData
          /\ \E d \in DataValues :
               /\ received' = Append(received, d)
               /\ events' = Append(events, [name |-> "Get the return data", data |-> d])
          /\ UNCHANGED pc
       \/ /\ pc' = "close"
          /\ UNCHANGED <<received, events>>
    /\ UNCHANGED <<stdout, prog, args, config, path, session, change_stream, get_stream,
                   data_stream, input, cx, injector, req_header, get_request, name,
                   spans, ops, notifs, reqlog, stream_ended, flushed>>

\* ------------------------------------------------- motion, t_sub, t_eval
\* Mutant of Subscribe: a failed subscribe is retried instead of unwrapped.
Subscribe_retry ==
    /\ pc = "subscribe"
    /\ \E ok \in BOOLEAN :
         /\ ops' = Append(ops, Op("subscribe", ok, path, NoValue))
         /\ change_stream' = IF ok THEN "open" ELSE change_stream
         /\ pc' = IF ~ok THEN "subscribe"
                  ELSE IF prog = "t_eval" THEN "first_change" ELSE "loop"
    /\ UNCHANGED <<stdout, prog, args, config, path, session, get_stream, data_stream,
                   input, cx, injector, req_header, get_request, name, spans, notifs,
                   reqlog, received, events, stream_ended, flushed>>

\* let mut change_stream = workspace.subscribe(&selector).await.unwrap();
Subscribe ==
    /\ pc = "subscribe"
    /\ \E ok \in BOOLEAN :
         /\ ops' = Append(ops, Op("subscribe", ok, path, NoValue))
         /\ change_stream' = IF ok THEN "open" ELSE change_stream
         /\ pc' = IF ~ok THEN "aborted"
                  ELSE IF prog = "t_eval" THEN "first_change" ELSE "loop"
    /\ UNCHANGED <<stdout, prog, args, config, path, session, get_stream, data_stream,
                   input, cx, injector, req_header, get_request, name, spans, notifs,
                   reqlog, received, events, stream_ended, flushed>>

\* Mutant of CloseChangeStream: t_eval goes on to the session close without
\* closing its eval stream.
CloseChangeStream_skip_get ==
    /\ pc = "close_change"
    /\ \E ok \in BOOLEAN :
         /\ ops' = Append(ops, Op("close_change", ok, <<>>, NoValue))
         /\ change_stream' = IF ok THEN "closed" ELSE change_stream
         /\ pc' = IF ~ok THEN "aborted" ELSE "close"
    /\ UNCHANGED <<stdout, prog, args, config, path, session, get_stream, data_stream,
                   input, cx, injector, req_header, get_request, name, spans, notifs,
                   reqlog, received, events, stream_ended, flushed>>

\* change_stream.close().await.unwrap();
CloseChangeStream ==
    /\ pc = "close_change"
    /\ \E ok \in BOOLEAN :
         /\ ops' = Append(ops, Op("close_change", ok, <<>>, NoValue))
         /\ change_stream' = IF ok THEN "closed" ELSE change_stream
         /\ pc' = IF ~ok THEN "aborted"
                  ELSE IF prog = "t_eval" THEN "close_get" ELSE "close"
    /\ UNCHANGED <<stdout, prog, args, config, path, session, get_stream, data_stream,
                   input, cx, injector, req_header, get_request, name, spans, notifs,
                   reqlog, received, events, stream_ended, flushed>>

\* Mutant of Motion_Change: a notification without a value is skipped.
Motion_Change_skip_none ==
    /\ pc = "loop"
    /\ prog = "motion"
    /\ \/ \* next() yields None: change.unwrap() panics
          /\ stream_ended' = TRUE
          /\ pc' = "aborted"
          /\ UNCHANGED <<notifs, req_header, spans, stdout>>
       \/ /\ Len(notifs) < MaxNotif
          /\ \E v \in ChangeValues :
               /\ notifs' = Append(notifs, v)
               /\ IF v = NoValue
                  THEN \* skipped: the loop goes on
                       /\ UNCHANGED <<pc, req_header, spans, stdout>>
                  ELSE LET h == IF v.k = "StringUtf8"
                                THEN insert(EmptyMap, "traceparent", v.s)
                                ELSE EmptyMap
                       IN  /\ req_header' = h
                           /\ stdout' = IF v.k = "StringUtf8"
                                        THEN Append(stdout, StringUtf8(v.s))
                                        ELSE stdout
                           /\ spans' = Append(spans,
                                 SpanRec("Get computing output and start motion", h,
                                         extract(h), v,
                                         IF v.k = "StringUtf8" THEN Len(notifs) + 1 ELSE 0,
                                         Len(notifs) + 1))
                           /\ UNCHANGED pc
          /\ UNCHANGED stream_ended
    /\ UNCHANGED <<prog, args, config, path, session, change_stream, get_stream,
                   data_stream, input, cx, injector, get_request, name, ops, reqlog,
                   received, events, flushed>>

\* ------------------------------------------------------------------ motion
\* select! branch: change = change_stream.next().fuse() => { .. }
Motion_Change ==
    /\ pc = "loop"
    /\ prog = "motion"
    /\ \/ \* next() yields None: change.unwrap() panics
          /\ stream_ended' = TRUE
          /\ pc' = "aborted"
          /\ UNCHANGED <<notifs, req_header, spans, stdout>>
       \/ /\ Len(notifs) < MaxNotif
          /\ \E v \in ChangeValues :
               /\ notifs' = Append(notifs, v)
               /\ IF v = NoValue
                  THEN \* change.value.unwrap() panics
                       /\ pc' = "aborted"
                       /\ UNCHANGED <<req_header, spans, stdout>>
                  ELSE LET h == IF v.k = "StringUtf8"
                                THEN insert(EmptyMap, "traceparent", v.s)
                                ELSE EmptyMap
                       IN  /\ req_header' = h
                           /\ stdout' = IF v.k = "StringUtf8"
                                        THEN Append(stdout, StringUtf8(v.s))
                                        ELSE stdout
                           /\ spans' = Append(spans,
                                 SpanRec("Get computing output and start motion", h,
                                         extract(h), v,
                                         IF v.k = "StringUtf8" THEN Len(notifs) + 1 ELSE 0,
                                         Len(notifs) + 1))
                           /\ UNCHANGED pc
          /\ UNCHANGED stream_ended
    /\ UNCHANGED <<prog, args, config, path, session, change_stream, get_stream,
                   data_stream, input, cx, injector, get_request, name, ops, reqlog,
                   received, events, flushed>>

\* Bytes typed on the console; "Err" is a failed read (end of input).
StdinReads == {"q", "x", "Err"}

\* Mutant of stdin_branch: the loop breaks on any byte read.
stdin_branch_any_byte(r) ==
    /\ pc = "loop"
    /\ input' = IF r = "Err" THEN input ELSE r
    /\ pc' = IF r # "Err" THEN "close_change" ELSE "loop"
    /\ UNCHANGED <<stdout, prog, args, config, path, session, change_stream, get_stream,
                   data_stream, cx, injector, req_header, get_request, name, spans,
                   ops, notifs, reqlog, received, events, stream_ended, flushed>>

\* select! branch: _ = stdin.read_exact(&mut input).fuse() => { if input[0] == b'q' {break} }
\* The read's result is dropped: a failed read leaves the buffer as it was.
stdin_branch(r) ==
    /\ pc = "loop"
    /\ input' = IF r = "Err" THEN input ELSE r
    /\ pc' = IF input' = "q" THEN "close_change" ELSE "loop"
    /\ UNCHANGED <<stdout, prog, args, config, path, session, change_stream, get_stream,
                   data_stream, cx, injector, req_header, get_request, name, spans,
                   ops, notifs, reqlog, received, events, stream_ended, flushed>>

Motion_Stdin ==
    /\ prog = "motion"
    /\ \E r \in StdinReads : stdin_branch(r)

\* Mutant of TSub_Change: a value that is not a string stops the program.
TSub_Change_strings_only ==
    /\ pc = "loop"
    /\ prog = "t_sub"
    /\ \/ \* next() yields None: change.unwrap() panics
          /\ stream_ended' = TRUE
          /\ pc' = "aborted"
          /\ UNCHANGED <<notifs, req_header, spans, stdout>>
       \/ /\ Len(notifs) < MaxNotif
          /\ \E v \in ChangeValues :
               /\ notifs' = Append(notifs, v)
               /\ IF v.k # "StringUtf8"
                  THEN \* anything but a string panics
                       /\ pc' = "aborted"
                       /\ UNCHANGED <<req_header, spans, stdout>>
                  ELSE LET value == IF v.k = "StringUtf8" THEN v.s ELSE S_other_data_type
                           h     == insert(EmptyMap, "traceparent", value)
                       IN  \* drop(req_header) after the extract
                           /\ req_header' = EmptyMap
                           /\ stdout' = Append(stdout, StringUtf8(value))
                           /\ spans' = Append(spans,
                                 SpanRec("Get and process data", h, extract(h), v,
                                         IF v.k = "StringUtf8" THEN Len(notifs) + 1 ELSE 0,
                                         Len(notifs) + 1))
                           /\ UNCHANGED pc
          /\ UNCHANGED stream_ended
    /\ UNCHANGED <<prog, args, config, path, session, change_stream, get_stream,
                   data_stream, input, cx, injector, get_request, name, ops, reqlog,
                   received, events, flushed>>

\* ------------------------------------------------------------------- t_sub
\* select! branch: change = change_stream.next().fuse() => { .. }
TSub_Change ==
    /\ pc = "loop"
    /\ prog = "t_sub"
    /\ \/ \* next() yields None: change.unwrap() panics
          /\ stream_ended' = TRUE
          /\ pc' = "aborted"
          /\ UNCHANGED <<notifs, req_header, spans, stdout>>
       \/ /\ Len(notifs) < MaxNotif
          /\ \E v \in ChangeValues :
               /\ notifs' = Append(notifs, v)
               /\ IF v = NoValue
                  THEN \* change.value.unwrap() panics
                       /\ pc' = "aborted"
                       /\ UNCHANGED <<req_header, spans, stdout>>
                  ELSE LET value == IF v.k = "StringUtf8" THEN v.s ELSE S_other_data_type
                           h     == insert(EmptyMap, "traceparent", value)
                       IN  \* drop(req_header) after the extract
                           /\ req_header' = EmptyMap
                           /\ stdout' = Append(stdout, StringUtf8(value))
                           /\ spans' = Append(spans,
                                 SpanRec("Get and process data", h, extract(h), v,
                                         IF v.k = "StringUtf8" THEN Len(notifs) + 1 ELSE 0,
                                         Len(notifs) + 1))
                           /\ UNCHANGED pc
          /\ UNCHANGED stream_ended
    /\ UNCHANGED <<prog, args, config, path, session, change_stream, get_stream,
                   data_stream, input, cx, injector, get_request, name, ops, reqlog,
                   received, events, flushed>>

TSub_Stdin ==
    /\ prog = "t_sub"
    /\ \E r \in StdinReads : stdin_branch(r)

\* ------------------------------------------------------------------ t_eval
\* let mut get_stream = workspace.register_eval(&path.into()).await.unwrap();
RegisterEval ==
    /\ pc = "register_eval"
    /\ \E ok \in BOOLEAN :
         /\ ops' = Append(ops, Op("register_eval", ok, path, NoValue))
         /\ get_stream' = IF ok THEN "open" ELSE get_stream
         /\ pc' = IF ok THEN "subscribe" ELSE "aborted"
    /\ UNCHANGED <<stdout, prog, args, config, path, session, change_stream, data_stream,
                   input, cx, injector, req_header, get_request, name, spans, notifs,
                   reqlog, received, events, stream_ended, flushed>>

\* Mutant of TEval_FirstChange: the string is stored under the wrong header key.
TEval_FirstChange_wrong_key ==
    /\ pc = "first_change"
    /\ \/ /\ stream_ended' = TRUE
          /\ pc' = "aborted"
          /\ UNCHANGED <<notifs, req_header, stdout>>
       \/ \E v \in ChangeValues :
            /\ notifs' = Append(notifs, v)
            /\ stdout' = Append(stdout, v)
            /\ IF v = NoValue
               THEN /\ pc' = "aborted"
                    /\ UNCHANGED req_header
               ELSE /\ req_header' = IF v.k = "StringUtf8"
                                     THEN insert(EmptyMap, "tracestate", v.s)
                                     ELSE EmptyMap
                    /\ pc' = "eval_loop"
            /\ UNCHANGED stream_ended
    /\ UNCHANGED <<prog, args, config, path, session, change_stream, get_stream,
                   data_stream, input, cx, injector, get_request, name, spans, ops,
                   reqlog, received, events, flushed>>

\* let change = change_stream.next().await.unwrap(); .. req_header from change.value
TEval_FirstChange ==
    /\ pc = "first_change"
    /\ \/ \* next() yields None: unwrap() panics
          /\ stream_ended' = TRUE
          /\ pc' = "aborted"
          /\ UNCHANGED <<notifs, req_header, stdout>>
       \/ \E v \in ChangeValues :
            /\ notifs' = Append(notifs, v)
            /\ stdout' = Append(stdout, v)
            /\ IF v = NoValue
               THEN \* change.value.unwrap() panics
                    /\ pc' = "aborted"
                    /\ UNCHANGED req_header
               ELSE /\ req_header' = IF v.k = "StringUtf8"
                                     THEN insert(EmptyMap, "traceparent", v.s)
                                     ELSE EmptyMap
                    /\ pc' = "eval_loop"
            /\ UNCHANGED stream_ended
    /\ UNCHANGED <<prog, args, config, path, session, change_stream, get_stream,
                   data_stream, input, cx, injector, get_request, name, spans, ops,
                   reqlog, received, events, flushed>>

\* Get requests: the selector has no name property, or one of these.
GetRequests ==
    {[present |-> TRUE, has_name |-> FALSE, name |-> <<>>]}
    \cup {[present |-> TRUE, has_name |-> TRUE, name |-> n] : n \in {S_Bob, S_name_path}}

\* What the first result of the nested get can be: a string, a value of
\* another type, or nothing (NoValue).
FirstResults == {StringUtf8(S_Alice), Integer_value, NoValue}
NotAsked == [k |-> "NotAsked", s |-> <<>>]

\* Mutant of TEval_Next: the next request is polled while the current one's
\* reply is still to be sent.
TEval_Next_eager ==
    /\ pc \in {"eval_loop", "eval_reply"}
    /\ \/ /\ pc' = "close_change"
          /\ UNCHANGED <<get_request, name, spans, reqlog>>
       \/ /\ Len(reqlog) < MaxReq
          /\ \E r \in GetRequests, sel_ok \in BOOLEAN :
               LET n == IF r.has_name THEN r.name ELSE S_Rust
               IN  /\ get_request' = r
                   /\ spans' = Append(spans,
                         SpanRec("Request time", req_header, extract(req_header),
                                 notifs[1],
                                 IF notifs[1].k = "StringUtf8" THEN 1 ELSE 0,
                                 Len(notifs)))
                   /\ name' = n
                   /\ reqlog' = Append(reqlog, [req |-> r, sel_ok |-> sel_ok,
                                                result |-> NotAsked])
                   /\ pc' = IF starts_with(n, S_slash) /\ sel_ok
                            THEN "eval_get" ELSE "eval_reply"
    /\ UNCHANGED <<stdout, prog, args, config, path, session, change_stream, get_stream,
                   data_stream, input, cx, injector, req_header, ops, notifs,
                   received, events, stream_ended, flushed>>

\* while let Some(get_request) = get_stream.next().await { span; name; .. }
\* up to the next await: the nested get when the name starts with '/' and is
\* a valid Selector, the reply otherwise.  sel_ok is Selector::try_from's result.
TEval_Next ==
    /\ pc = "eval_loop"
    /\ \/ \* next() yields None: the loop ends
          /\ pc' = "close_change"
          /\ UNCHANGED <<get_request, name, spans, reqlog>>
       \/ /\ Len(reqlog) < MaxReq
          /\ \E r \in GetRequests, sel_ok \in BOOLEAN :
               LET n == IF r.has_name THEN r.name ELSE S_Rust
               IN  /\ get_request' = r
                   /\ spans' = Append(spans,
                         SpanRec("Request time", req_header, extract(req_header),
                                 notifs[1],
                                 IF notifs[1].k = "StringUtf8" THEN 1 ELSE 0,
                                 Len(notifs)))
                   /\ name' = n
                   /\ reqlog' = Append(reqlog, [req |-> r, sel_ok |-> sel_ok,
                                                result |-> NotAsked])
                   /\ pc' = IF starts_with(n, S_slash) /\ sel_ok
                            THEN "eval_get" ELSE "eval_reply"
    /\ UNCHANGED <<stdout, prog, args, config, path, session, change_stream, get_stream,
                   data_stream, input, cx, injector, req_header, ops, notifs,
                   received, events, stream_ended, flushed>>

\* workspace.get(&selector).await.unwrap()
TEval_Get ==
    /\ pc = "eval_get"
    /\ \E ok \in BOOLEAN :
         /\ ops' = Append(ops, Op("get", ok, name, NoValue))
         /\ pc' = IF ok THEN "eval_get_next" ELSE "aborted"
    /\ UNCHANGED <<stdout, prog, args, config, path, session, change_stream, get_stream,
                   data_stream, input, cx, injector, req_header, get_request, name,
                   spans, notifs, reqlog, received, events, stream_ended, flushed>>

\* Mutant of TEval_GetNext: the name is replaced whatever the first result is.
TEval_GetNext_any_result ==
    /\ pc = "eval_get_next"
    /\ \E d \in FirstResults :
         /\ name' = d.s
         /\ reqlog' = [reqlog EXCEPT ![Len(reqlog)].result = d]
    /\ pc' = "eval_reply"
    /\ UNCHANGED <<stdout, prog, args, config, path, session, change_stream, get_stream,
                   data_stream, input, cx, injector, req_header, get_request, spans,
                   ops, notifs, received, events, stream_ended, flushed>>

\* match .next().await { Some(Data{value: StringUtf8(s)}) => name = s, Some(_) => .., None => .. }
TEval_GetNext ==
    /\ pc = "eval_get_next"
    /\ \E d \in FirstResults :
         /\ name' = IF d.k = "StringUtf8" THEN d.s ELSE name
         /\ reqlog' = [reqlog EXCEPT ![Len(reqlog)].result = d]
    /\ pc' = "eval_reply"
    /\ UNCHANGED <<stdout, prog, args, config, path, session, change_stream, get_stream,
                   data_stream, input, cx, injector, req_header, get_request, spans,
                   ops, notifs, received, events, stream_ended, flushed>>

\* Mutant of TEval_Reply: a new notification is awaited before each request.
TEval_Reply_reread ==
    /\ pc = "eval_reply"
    /\ ops' = Append(ops, Op("reply", TRUE, path, StringUtf8(S_EvalFrom \o name)))
    /\ get_request' = NoReq
    /\ pc' = "first_change"
    /\ UNCHANGED <<stdout, prog, args, config, path, session, change_stream, get_stream,
                   data_stream, input, cx, injector, req_header, name, spans, notifs,
                   reqlog, received, events, stream_ended, flushed>>

\* let s = format!("Eval from {}", name); get_request.reply_async(path.clone(), s.into()).await;
TEval_Reply ==
    /\ pc = "eval_reply"
    /\ ops' = Append(ops, Op("reply", TRUE, path, StringUtf8(S_EvalFrom \o name)))
    /\ get_request' = NoReq
    /\ pc' = "eval_loop"
    /\ UNCHANGED <<stdout, prog, args, config, path, session, change_stream, get_stream,
                   data_stream, input, cx, injector, req_header, name, spans, notifs,
                   reqlog, received, events, stream_ended, flushed>>

\* get_stream.close().await.unwrap();
CloseGetStream ==
    /\ pc = "close_get"
    /\ \E ok \in BOOLEAN :
         /\ ops' = Append(ops, Op("close_get", ok, <<>>, NoValue))
         /\ get_stream' = IF ok THEN "closed" ELSE get_stream
         /\ pc' = IF ok THEN "close" ELSE "aborted"
    /\ UNCHANGED <<stdout, prog, args, config, path, session, change_stream, data_stream,
                   input, cx, injector, req_header, get_request, name, spans, notifs,
                   reqlog, received, events, stream_ended, flushed>>

\* --------------------------------------------------------- specifications
Next ==
    \/ InitTracer
    \/ StartSpan
    \/ ParseArgs
    \/ OpenSession
    \/ NewWorkspace
    \/ Sensor_Put
    \/ TGet_Put
    \/ TGet_Get
    \/ TGet_Next
    \/ Subscribe
    \/ Motion_Change
    \/ Motion_Stdin
    \/ TSub_Change
    \/ TSub_Stdin
    \/ RegisterEval
    \/ TEval_FirstChange
    \/ TEval_Next
    \/ TEval_Get
    \/ TEval_GetNext
    \/ TEval_Reply
    \/ CloseChangeStream
    \/ CloseGetStream
    \/ CloseSession
    \/ FlushShutdown

Spec == Init /\ [][Next]_vars

\* parse_args on every command line: each program up to its session open.
InitArgs ==
    /\ prog \in Programs
    /\ \E a \in ArgsAll : args = ProgramArgs(prog, a)
    /\ pc = "init_tracer"
    /\ config = EmptyMap
    /\ path = <<>>
    /\ session = "none"
    /\ change_stream = "none"
    /\ get_stream = "none"
    /\ data_stream = "none"
    /\ input = "0"
    /\ cx = NoCtx
    /\ injector = EmptyMap
    /\ req_header = EmptyMap
    /\ get_request = NoReq
    /\ name = <<>>
    /\ spans = <<>>
    /\ ops = <<>>
    /\ notifs = <<>>
    /\ reqlog = <<>>
    /\ received = <<>>
    /\ events = <<>>
    /\ stream_ended = FALSE
    /\ stdout = <<>>
    /\ flushed = FALSE

NextArgs ==
    \/ InitTracer
    \/ StartSpan
    \/ ParseArgs
    \/ OpenSession

SpecArgs == InitArgs /\ [][NextArgs]_vars

\* ------------------------------------------------------------------ claims
Last(q) == q[Len(q)]
OpsOf(kind) == SelectSeq(ops, LAMBDA o : o.op = kind)
PubSubWork == {"put", "get", "subscribe", "register_eval", "reply"}
AfterLoop == {"close_change", "close_get", "close", "flush", "done"}

\* C1: a failed library step (tracer init, open, workspace, subscribe,
\* register_eval, get, put, stream close, session close) is the last call the
\* program ever issues: it is not retried, nothing is issued after it, and the
\* program is aborted.
C1_AbortOnFailure ==
    /\ \A i \in 1..Len(ops) : ~ops[i].ok => (i = Len(ops) /\ pc = "aborted")
    /\ (pc = "aborted" => ~(ENABLED Next))

C1_Witness ==
    /\ pc = "aborted"
    /\ Len(ops) >= 4
    /\ Last(ops).op \in {"subscribe", "put", "get"}
    /\ ~Last(ops).ok

\* C2 (as claimed): in motion and t_sub, once the change stream's next() has
\* yielded None the program is on its shutdown sequence (close the change
\* stream, then the session); it can only be aborted by one of those closes
\* failing.
C2_StreamEndShutsDown ==
    (prog \in Subscribers /\ stream_ended) =>
        \/ pc \in AfterLoop
        \/ (pc = "aborted" /\ ops # <<>> /\ Last(ops).op \in {"close_change", "close"})

\* C3 (as claimed): in motion and t_sub, after any byte has been read from
\* stdin the program has left the select loop.
C3_AnyByteExits ==
    (prog \in Subscribers /\ input # "0") => pc # "loop"

\* C3 (amended): in motion and t_sub, the byte 'q' read from stdin makes the
\* loop exit: from then on the program is closing (change stream, then
\* session), takes no further notification and starts no further span; and
\* the loop is left for the shutdown sequence only with 'q' in the buffer, so
\* any other byte keeps the program in the loop.
C3_QuitOnQ ==
    /\ [](prog \in Subscribers =>
            /\ (input = "q" =>
                  \/ pc \in AfterLoop
                  \/ (pc = "aborted" /\ Last(ops).op \in {"close_change", "close"}))
            /\ (pc \in AfterLoop => input = "q"))
    /\ [][(prog \in Subscribers /\ input = "q") => UNCHANGED <<notifs, spans>>]_vars
    /\ [][(prog \in Subscribers /\ pc = "loop" /\ input' # "q") =>
             pc' \in {"loop", "aborted"}]_vars

C3_Witness ==
    /\ prog = "motion"
    /\ input = "q"
    /\ Len(notifs) >= 1
    /\ pc = "close"

\* C4: the loops are sequential.  t_eval: at most one request is being served,
\* and a request is taken only when every earlier one has been replied to.
\* motion, t_sub: every notification taken has had its span started before the
\* loop waits again, and one step of the loop handles either one notification
\* or the console input, never both.  t_get: every data item taken has had its
\* event added before the next is taken.
C4_Sequential ==
    /\ [](/\ (prog = "t_eval" =>
               /\ Len(OpsOf("reply")) = Len(reqlog) - (IF get_request.present THEN 1 ELSE 0)
               /\ (pc \in {"eval_loop"} \cup AfterLoop => ~get_request.present)
               /\ (pc \in {"eval_get", "eval_get_next", "eval_reply"} => get_request.present))
          /\ (prog \in Subscribers =>
               /\ Len(notifs) - Len(spans) \in {0, 1}
               /\ (pc = "loop" => Len(spans) = Len(notifs)))
          /\ (prog = "t_get" => Len(events) = Len(received)))
    /\ [][/\ Len(notifs') <= Len(notifs) + 1
          /\ Len(reqlog') <= Len(reqlog) + 1
          /\ Len(received') <= Len(received) + 1
          /\ ~(notifs' # notifs /\ input' # input)]_vars

C4_Witness ==
    /\ prog = "t_eval"
    /\ Len(reqlog) = 2
    /\ Len(OpsOf("reply")) = 1
    /\ pc = "eval_reply"

\* C5: no put, get, subscribe, register_eval or reply is issued before the
\* session open succeeded (itself after parse_args) or after the session close
\* was called; a run that ends normally closed the session exactly once; and
\* when the close is called every stream that was opened by subscribe or
\* register_eval has been closed, the change stream before the eval stream.
C5_Lifecycle ==
    /\ \A i \in 1..Len(ops) :
         /\ ops[i].op \in PubSubWork =>
              /\ \E j \in 1..(i-1) : ops[j].op = "open" /\ ops[j].ok
              /\ \A j \in 1..(i-1) : ops[j].op # "close"
         /\ ops[i].op = "open" => pc # "parse_args" /\ path # <<>>
         /\ ops[i].op = "close" =>
              /\ change_stream # "open"
              /\ get_stream # "open"
              /\ \A j \in 1..(i-1) :
                   /\ ops[j].op = "subscribe" =>
                        \E k \in (j+1)..(i-1) : ops[k].op = "close_change" /\ ops[k].ok
                   /\ ops[j].op = "register_eval" =>
                        \E k \in (j+1)..(i-1) :
                          /\ ops[k].op = "close_get" /\ ops[k].ok
                          /\ \E c \in 1..(k-1) : ops[c].op = "close_change" /\ ops[c].ok
    /\ (pc \in {"flush", "done"} =>
          /\ Len(OpsOf("close")) = 1
          /\ Last(ops).op = "close"
          /\ Last(ops).ok
          /\ session = "closed")
    /\ (session = "open" <=> (Len(OpsOf("open")) = 1 /\ Last(OpsOf("open")).ok
                               /\ ~(\E i \in 1..Len(ops) : ops[i].op = "close" /\ ops[i].ok)))

C5_Witness ==
    /\ prog = "t_eval"
    /\ pc = "done"
    /\ Len(OpsOf("reply")) >= 1

\* The comma-joined list of one or two values, written out.
Joined(vs) == IF Len(vs) = 1 THEN vs[1] ELSE vs[1] \o <<",">> \o vs[2]
Carries(v) == \E k \in DOMAIN config : config[k] = v
CliKeys == {"mode", "peer", "listener"}

\* C6 (as claimed): every flag given on the command line (mode, peer,
\* listener, config file path, path / selector, value) has an entry carrying
\* its value in the configuration the session was opened with.
C6_AllFlagsForwarded ==
    session = "open" =>
        /\ \A key \in CliKeys :
             values_of(args, key) # <<>> => Carries(Joined(values_of(args, key)))
        /\ (args.config # <<>> => Carries(args.config[1]))
        /\ (args.path # <<>> => Carries(args.path[1]))
        /\ (args.value # <<>> => Carries(args.value[1]))

\* C6 (amended): the mode, peer and listener flags are forwarded: for each
\* one given, the configuration the session was opened with holds, under that
\* key, the comma-joined values.  The path / selector and the value are not
\* part of the configuration: parse_args returns them beside it, and the
\* configuration is what it would be had they not been given.
C6_ConfigFlagsForwarded ==
    session = "open" =>
        /\ \A key \in CliKeys :
             values_of(args, key) # <<>> =>
                 (key \in DOMAIN config /\ config[key] = Joined(values_of(args, key)))
        /\ config = parse_args_config([args EXCEPT !.path = <<>>, !.value = <<>>]).props
        /\ path = (IF args.path # <<>> THEN args.path[1] ELSE parse_args_path(prog, args))

C6_Witness ==
    /\ session = "open"
    /\ prog = "sensor"
    /\ args.path # <<>>
    /\ args.value # <<>>
    /\ Len(args.peer) = 2
    /\ args.listener # <<>>
    /\ args.config # <<>>

\* Each span context a publisher can have, with the traceparent string
\* inject_context writes for it.
Injected == {[sc |-> sc, s |-> traceparent_of(sc)] : sc \in ValidCtx}

\* C7: the traceparent string a publisher injects survives the payload: the
\* value a publisher puts parses back to its span context, and a receiver that
\* takes the string a publisher injected for a context sc as a UTF-8
\* notification hands extract a header map whose "traceparent" is that exact
\* string, and the span it starts has sc (trace id and span id) as its parent.
C7_TraceRoundTrip ==
    /\ (prog \in Publishers =>
          \A i \in 1..Len(ops) :
            ops[i].op = "put" =>
              /\ \E p \in Injected : p.sc = cx /\ ops[i].value = StringUtf8(p.s)
              /\ extract(insert(EmptyMap, "traceparent", ops[i].value.s)) = cx)
    /\ (prog \in Receivers =>
          \A i \in 1..Len(spans) : \A p \in Injected :
            spans[i].value = StringUtf8(p.s) =>
              /\ contains_key(spans[i].header, "traceparent")
              /\ spans[i].header["traceparent"] = p.s
              /\ spans[i].parent = p.sc)
    /\ (prog \in Subscribers =>
          \A i \in 1..Len(spans) : spans[i].value = notifs[i])
    /\ (prog = "t_eval" =>
          \A i \in 1..Len(spans) : spans[i].value = notifs[1])

C7_Witness ==
    /\ prog \in Receivers
    /\ \E i \in 1..Len(spans) :
         /\ spans[i].parent = [tid |-> 2, sid |-> 1]
         /\ spans[i].value = StringUtf8(traceparent_of([tid |-> 2, sid |-> 1]))

\* C8 (as claimed): in motion, t_sub and t_eval the trace-context string of a
\* notification is the remote parent of at most one span, and a span with a
\* remote parent takes it from the latest notification, the one that
\* triggered it.
C8_ReadOnceForwardOnce ==
    prog \in Receivers =>
        /\ \A i, j \in 1..Len(spans) :
             (i # j /\ spans[i].parent # NoCtx /\ spans[j].parent # NoCtx) =>
                 spans[i].header_from # spans[j].header_from
        /\ \A i \in 1..Len(spans) :
             spans[i].parent # NoCtx => spans[i].header_from = spans[i].at_notif

\* The name C10 states for a served request, from what the request carried
\* and what the library answered.
ExpectedName(e) ==
    IF ~e.req.has_name THEN S_Rust
    ELSE IF e.req.name = <<>> \/ e.req.name[1] # "/" THEN e.req.name
    ELSE IF e.sel_ok /\ e.result.k = "StringUtf8" THEN e.result.s
    ELSE e.req.name

\* C9: the configuration parse_args returns is the config file's properties
\* (none without --config), with each of mode, peer, listener that was given
\* set to its comma-joined values in the order given, and multicast_scouting
\* set to "false" when --no-multicast-scouting is present; every other key,
\* and each of these when not given, is as in the file; the same in all five
\* programs.
C9_ParseArgsConfig ==
    pc \in {"open", "workspace"} =>
        LET base  == IF args.config = <<>> THEN EmptyMap ELSE FileSystem[args.config[1]]
            given == {k \in CliKeys : values_of(args, k) # <<>>}
            noms  == IF args.noms THEN {"multicast_scouting"} ELSE {}
        IN  /\ DOMAIN config = (DOMAIN base) \cup given \cup noms
            /\ \A k \in DOMAIN config :
                 config[k] = IF k \in given THEN Joined(values_of(args, k))
                             ELSE IF k \in noms THEN S_false
                             ELSE base[k]

C9_Witness ==
    /\ pc = "workspace"
    /\ args.config = <<S_file2>>
    /\ args.peer = <<S_loc1, S_loc2>>
    /\ args.mode = <<>>
    /\ ~args.noms
    /\ config["peer"] = S_loc1 \o <<",">> \o S_loc2
    /\ config["multicast_scouting"] = S_false

\* C10: t_eval's replies are, in order, one per request whose serving has
\* finished, each on the registered eval path with the string value
\* "Eval from <name>", <name> being the one C10 states for that request; a
\* nested get is issued only for a name that starts with '/' and is a valid
\* selector, and on that name.
C10_EvalReply ==
    prog = "t_eval" =>
        LET replies == OpsOf("reply")
            gets    == OpsOf("get")
        IN  /\ Len(replies) = Len(reqlog) - (IF get_request.present THEN 1 ELSE 0)
            /\ \A i \in 1..Len(replies) :
                 /\ replies[i].path = parse_args_path(prog, args)
                 /\ replies[i].path = Last(OpsOf("register_eval")).path
                 /\ replies[i].value = StringUtf8(S_EvalFrom \o ExpectedName(reqlog[i]))
            /\ \A i \in 1..Len(reqlog) :
                 reqlog[i].result # NotAsked =>
                     /\ reqlog[i].req.has_name
                     /\ starts_with(reqlog[i].req.name, S_slash)
                     /\ reqlog[i].sel_ok
            /\ \A i \in 1..Len(gets) : starts_with(gets[i].path, S_slash)

C10_Witness ==
    /\ prog = "t_eval"
    /\ Len(OpsOf("reply")) = 2
    /\ OpsOf("reply")[1].value = StringUtf8(S_EvalFrom \o S_Alice)
    /\ OpsOf("reply")[2].value = StringUtf8(S_EvalFrom \o S_name_path)

\* C11: in motion and t_sub a notification whose value is present but is not a
\* UTF-8 string never gives its span a remote parent and does not stop the
\* loop: a span is still started for it, with an empty header map in motion
\* (and no line printed) and with "traceparent" set to "other data type" in
\* t_sub, and the program goes on waiting for the next event.
C11_NonStringNotification ==
    /\ [](prog \in Subscribers =>
            /\ \A i \in 1..Len(notifs) :
                 notifs[i].k = "Integer" =>
                   /\ i <= Len(spans)
                   /\ spans[i].value = notifs[i]
                   /\ spans[i].at_notif = i
                   /\ spans[i].parent = NoCtx
                   /\ spans[i].header =
                        IF prog = "motion" THEN EmptyMap
                        ELSE insert(EmptyMap, "traceparent", S_other_data_type)
            /\ prog = "motion" =>
                 stdout = SelectSeq(notifs, LAMBDA v : v.k = "StringUtf8"))
    /\ [][(prog \in Subscribers /\ Len(notifs') = Len(notifs) + 1
             /\ notifs'[Len(notifs')].k = "Integer")
          => (pc = "loop" /\ pc' = "loop" /\ Len(spans') = Len(spans) + 1)]_vars

C11_Witness ==
    /\ prog \in Subscribers
    /\ Len(notifs) = 2
    /\ notifs[1].k = "Integer"
    /\ notifs[2].k = "StringUtf8"
    /\ Len(spans) = 2
    /\ spans[2].parent # NoCtx
    /\ pc = "done"

\* C12: sensor performs exactly one put per run, on the path --path gave
\* (default /demo/example/zenoh-rs-put); the value put is the traceparent
\* injected from the context of its "Put data" span before the session was
\* opened; --value never influences the value put; with no "traceparent" in
\* the injected map the program aborts before putting anything.
C12_SensorPut ==
    /\ [](prog = "sensor" =>
            LET puts == OpsOf("put")
            IN  /\ Len(puts) <= 1
                /\ pc \in {"close", "flush", "done"} => Len(puts) = 1 /\ puts[1].ok
                /\ \A i \in 1..Len(puts) :
                     /\ puts[i].path = IF args.path # <<>> THEN args.path[1]
                                       ELSE S_put_default
                     /\ is_valid(cx)
                     /\ puts[i].value = StringUtf8(traceparent_of(cx))
                     /\ spans[1].name = "Put data"
                /\ ~contains_key(injector, "traceparent") =>
                     /\ puts = <<>>
                     /\ pc \notin {"close", "flush", "done"}
                /\ session # "none" => injector = inject_context(cx, EmptyMap))
    /\ [][(prog = "sensor" /\ pc # "start_span") => UNCHANGED <<cx, injector>>]_vars

C12_Witness ==
    /\ prog = "sensor"
    /\ pc = "done"
    /\ args.value # <<>>
    /\ args.path # <<>>
    /\ Len(OpsOf("put")) = 1
    /\ OpsOf("put")[1].value # StringUtf8(args.value[1])

\* C13: in t_get the put of the injected traceparent on /demo/example/eval
\* completes before the get on the user's selector is issued; the put happens
\* iff the injected map contains "traceparent"; and exactly one "Get the return
\* data" event is added for each data item the get stream yields, in the order
\* the items are received.
C13_PutBeforeGet ==
    prog = "t_get" =>
        /\ Len(OpsOf("put")) <= 1
        /\ Len(OpsOf("get")) <= 1
        /\ \A i \in 1..Len(ops) :
             /\ ops[i].op = "put" =>
                  /\ contains_key(injector, "traceparent")
                  /\ ops[i].path = S_eval_path
                  /\ ops[i].value = StringUtf8(traceparent_of(cx))
             /\ ops[i].op = "get" =>
                  /\ ops[i].path = IF args.path # <<>> THEN args.path[1]
                                   ELSE S_sel_default
                  /\ IF contains_key(injector, "traceparent")
                     THEN /\ i > 1
                          /\ ops[i-1].op = "put"
                          /\ ops[i-1].ok
                     ELSE OpsOf("put") = <<>>
        /\ received # <<>> => \E i \in 1..Len(ops) : ops[i].op = "get" /\ ops[i].ok
        /\ Len(events) = Len(received)
        /\ \A i \in 1..Len(events) :
             events[i] = [name |-> "Get the return data", data |-> received[i]]

C13_Witness ==
    /\ prog = "t_get"
    /\ pc = "done"
    /\ OpsOf("put") # <<>>
    /\ Len(received) = 2
    /\ received[1].k = "Integer"
    /\ received[2].k = "StringUtf8"
    /\ Len(events) = 2

\* C14: t_eval serves no get request before it has received its first
\* notification on the eval path (requests arriving earlier stay in the eval
\* stream, and with no notification there is never a reply), and after that
\* first notification it reads no further notification.
C14_FirstNotificationOnly ==
    prog = "t_eval" =>
        /\ Len(notifs) <= 1
        /\ (reqlog # <<>> \/ OpsOf("reply") # <<>> \/ OpsOf("get") # <<>>
              \/ spans # <<>> \/ get_request.present) =>
             /\ Len(notifs) = 1
             /\ notifs[1] # NoValue
        /\ pc = "first_change" => notifs = <<>> /\ get_stream = "open"

C14_Witness ==
    /\ prog = "t_eval"
    /\ Len(notifs) = 1
    /\ Len(reqlog) = 2
    /\ Len(OpsOf("reply")) = 2
    /\ pc = "done"

\* C15: a notification without a value is never skipped: in motion and t_sub
\* it aborts the program inside the loop, in t_eval (as the first
\* notification) it aborts before any get request is served; the stream close
\* and the session close are not executed.
C15_NoValueAborts ==
    prog \in Receivers =>
        \A i \in 1..Len(notifs) :
            notifs[i] = NoValue =>
              /\ i = Len(notifs)
              /\ pc = "aborted"
              /\ OpsOf("close_change") = <<>>
              /\ OpsOf("close_get") = <<>>
              /\ OpsOf("close") = <<>>
              /\ session = "open"
              /\ prog \in Subscribers => Len(spans) = i - 1
              /\ prog = "t_eval" =>
                   reqlog = <<>> /\ OpsOf("reply") = <<>> /\ spans = <<>>

C15_Witness ==
    /\ prog \in Subscribers
    /\ Len(notifs) = 2
    /\ notifs[1] # NoValue
    /\ notifs[2] = NoValue
    /\ Len(spans) = 1
    /\ pc = "aborted"

\* C16: on every normal exit, a program that has started a span has called
\* the tracer provider's force_flush and shutdown after the session close and
\* before main returns.
C16_FlushOnExit ==
    (pc = "done" /\ spans # <<>>) => (flushed /\ session = "closed")

====
